---- MODULE Spec2Model ----
(***************************************************************************)
(* Model of the speedtest exporter's collection cycle                      *)
(* (package exporter: Collect, speedtest, pingTest, downloadTest,          *)
(* uploadTest, normalizeSpeed).                                            *)
(*                                                                         *)
(* The repository carries two copies of package exporter:                  *)
(*   src/internal/exporter/exporter.go  (throughput through normalizeSpeed)*)
(*   src/unnamed/part_002               (throughput through speedThreshold)*)
(* They agree line for line on Collect, speedtest and pingTest and differ  *)
(* in downloadTest/uploadTest.  The variable build says which copy runs.   *)
(*                                                                         *)
(* float64 values are modelled as exact decimals m * 10^e.                 *)
(* Strings that the code edits (Server.URL) are sequences of characters.   *)
(***************************************************************************)
EXTENDS Integers, Sequences, FiniteSets, TLC

\* ------------------------------------------------------------------ bounds

\* Longest candidate list the provider returns.
MaxServers == 2

\* Collection requests the host may issue.
CycleIds == {1, 2}

\* ---------------------------------------------------------------- decimals

Dec(m, e) == [m |-> m, e |-> e]

RECURSIVE Canon(_)
\* The canonical form of a decimal: no trailing zero in the mantissa.
Canon(d) ==
    IF d.m = 0 THEN Dec(0, 0)
    ELSE IF d.m % 10 = 0 THEN Canon(Dec(d.m \div 10, d.e + 1))
    ELSE d

RECURSIVE Pow10(_)
Pow10(k) == IF k <= 0 THEN 1 ELSE 10 * Pow10(k - 1)

RECURSIVE Digits(_)
\* Number of decimal digits of n > 0.
Digits(n) == IF n < 10 THEN 1 ELSE 1 + Digits(n \div 10)

Neg(d) == Dec(0 - d.m, d.e)

\* a < b for a, b > 0: by order of magnitude, then by aligned mantissas.
LtPos(a, b) ==
    LET da == Digits(a.m)
        db == Digits(b.m)
        w  == IF da > db THEN da ELSE db
    IN  IF da + a.e # db + b.e
        THEN da + a.e < db + b.e
        ELSE a.m * Pow10(w - da) < b.m * Pow10(w - db)

\* a < b on decimals.
Lt(a, b) ==
    CASE a.m > 0 /\ b.m > 0 -> LtPos(a, b)
      [] a.m < 0 /\ b.m < 0 -> LtPos(Neg(b), Neg(a))
      [] OTHER -> (a.m < 0 /\ b.m >= 0) \/ (a.m = 0 /\ b.m > 0)

Gt(a, b) == Lt(b, a)
Ge(a, b) == ~Lt(a, b)

\* a * b on decimals.
Times(a, b) ==
    LET x == Canon(a)
        y == Canon(b)
    IN  Canon(Dec(x.m * y.m, x.e + y.e))

\* a / 8 on decimals (1/8 = 0.125 exactly).
Over8(a) ==
    LET x == Canon(a)
    IN  Canon(Dec(x.m * 125, x.e - 3))

\* ---------------------------------------------------------------- strings

\* strings.HasPrefix(s, prefix)
HasPrefix(s, prefix) ==
    /\ Len(s) >= Len(prefix)
    /\ SubSeq(s, 1, Len(prefix)) = prefix

\* Whether old occurs in s at position i.
OccursAt(s, old, i) ==
    /\ i + Len(old) - 1 <= Len(s)
    /\ SubSeq(s, i, i + Len(old) - 1) = old

\* strings.Replace(s, old, new, 1): the first occurrence of old replaced.
ReplaceFirst(s, old, new) ==
    LET at == {i \in 1..Len(s) : OccursAt(s, old, i)}
    IN  IF at = {} THEN s
        ELSE LET i == CHOOSE j \in at : \A k \in at : j <= k
             IN  SubSeq(s, 1, i - 1) \o new \o SubSeq(s, i + Len(old), Len(s))

BadScheme  == <<"h", "t", "t", "p", "/", "/">>
GoodScheme == <<"h", "t", "t", "p", ":", "/", "/">>

\* A repair that puts the colon before the first "//" of any scheme.
correctURLAnyScheme(url) ==
    IF HasPrefix(url, GoodScheme) THEN url
    ELSE ReplaceFirst(url, <<"/", "/">>, <<":", "/", "/">>)

\* The URL workaround of speedtest().
correctURL(url) ==
    IF HasPrefix(url, BadScheme)
    THEN ReplaceFirst(url, BadScheme, GoodScheme)
    ELSE url

\* ------------------------------------------------------- provider's answers

UrlX == <<"h","t","t","p","/","/","x",".","e","x","a","m","p","l","e">>
UrlY == <<"h","t","t","p",":","/","/","y",".","e","x","a","m","p","l","e">>
UrlZ == <<"f","t","p","/","/","z">>

\* The candidates the provider knows: identifier, name, URL.
Candidates ==
    { [ID |-> 1, Name |-> "x", URL |-> UrlX],
      [ID |-> 2, Name |-> "y", URL |-> UrlY],
      [ID |-> 3, Name |-> "z", URL |-> UrlZ] }

RECURSIVE SeqsUpTo(_, _)
\* All sequences over S of length at most n.
SeqsUpTo(S, n) ==
    IF n = 0 THEN {<<>>}
    ELSE LET shorter == SeqsUpTo(S, n - 1)
         IN  shorter \cup {Append(q, x) : q \in shorter, x \in S}

\* The candidate lists FetchServerList may return (distance-ascending order is
\* the provider's; the core never reorders).
ServerLists == SeqsUpTo(Candidates, MaxServers)

\* Configured --server_id values: -1 (none), identifiers some lists hold, and
\* 4, which no list holds.
PreferredIDs == {-1, 1, 2, 3, 4}

\* Raw throughput readings the provider may leave in DLSpeed / ULSpeed.
RawSpeeds ==
    { Dec(-5, 0), Dec(0, 0), Dec(10, 0), Dec(1999, -2), Dec(20, 0),
      Dec(1999999, -2), Dec(20000, 0), Dec(25000, 0), Dec(20000000, 0) }

Builds == {"exporter", "part_002"}

\* ----------------------------------------------------------- unit handling
\* The factors 125000000, 125000 and 125 are written 125 * 10^6, 125 * 10^3
\* and 125 * 10^0.

\* A normalizer whose band edges belong to the lower band.
normalizeSpeedEdgeBelow(rawValue) ==
    IF Gt(rawValue, Dec(0, 0)) /\ ~Gt(rawValue, Dec(20, 0))
    THEN Times(rawValue, Dec(125, 6))
    ELSE IF Gt(rawValue, Dec(20, 0)) /\ ~Gt(rawValue, Dec(20000, 0))
    THEN Times(rawValue, Dec(125, 3))
    ELSE IF Gt(rawValue, Dec(20000, 0)) /\ ~Gt(rawValue, Dec(20000000, 0))
    THEN Times(rawValue, Dec(125, 0))
    ELSE Over8(rawValue)

\* normalizeSpeed of internal/exporter/exporter.go.
normalizeSpeed(rawValue) ==
    IF Gt(rawValue, Dec(0, 0)) /\ Lt(rawValue, Dec(20, 0))
    THEN Times(rawValue, Dec(125, 6))
    ELSE IF Ge(rawValue, Dec(20, 0)) /\ Lt(rawValue, Dec(20000, 0))
    THEN Times(rawValue, Dec(125, 3))
    ELSE IF Ge(rawValue, Dec(20000, 0)) /\ Lt(rawValue, Dec(20000000, 0))
    THEN Times(rawValue, Dec(125, 0))
    ELSE IF Ge(rawValue, Dec(20000000, 0))
    THEN Over8(rawValue)
    ELSE Over8(rawValue)

\* const speedThreshold of part_002.
speedThreshold == Dec(20000, 0)

\* The heuristic of part_002's downloadTest / uploadTest.
thresholdSpeed(rawValue) ==
    IF Gt(rawValue, speedThreshold)
    THEN Canon(rawValue)
    ELSE Times(rawValue, Dec(125, 3))

\* speedBps as downloadTest / uploadTest of the given build compute it.
speedBps(b, rawValue) ==
    IF b = "exporter" THEN normalizeSpeed(rawValue) ELSE thresholdSpeed(rawValue)

\* -------------------------------------------------------------- selection

\* The lookup FindServer([]int{id}) of the provider's candidate list: the
\* positions of the candidates carrying the identifier, in list order.
FindServer(list, id) ==
    [ servers |-> SelectSeq([i \in 1..Len(list) |-> i], LAMBDA i : list[i].ID = id),
      err     |-> FALSE ]

\* A selection that ignores the fallback flag and always falls back.
selectServerAlwaysFallback(list, id, fallback) ==
    IF id = -1
    THEN IF Len(list) = 0 THEN 0 ELSE 1
    ELSE LET found == FindServer(list, id)
         IN  IF found.err THEN 0
             ELSE IF Len(found.servers) = 0
             THEN IF Len(list) = 0 THEN 0 ELSE 1
             ELSE found.servers[1]

\* A selection that takes the closest candidate even when the preferred one
\* is in the list.
selectServerClosest(list, id, fallback) ==
    IF id = -1
    THEN IF Len(list) = 0 THEN 0 ELSE 1
    ELSE LET found == FindServer(list, id)
         IN  IF found.err THEN 0
             ELSE IF Len(found.servers) = 0
             THEN IF ~fallback THEN 0
                  ELSE IF Len(list) = 0 THEN 0 ELSE 1
             ELSE 1

\* The server choice of speedtest(): the position in the list of the server
\* the variable server points to, 0 where speedtest returns false.
selectServer(list, id, fallback) ==
    IF id = -1
    THEN IF Len(list) = 0 THEN 0 ELSE 1
    ELSE LET found == FindServer(list, id)
         IN  IF found.err THEN 0
             ELSE IF Len(found.servers) = 0
             THEN IF ~fallback THEN 0
                  ELSE IF Len(list) = 0 THEN 0 ELSE 1
             ELSE found.servers[1]

\* ------------------------------------------------------------------ state

VARIABLES
    build,           \* which copy of package exporter runs
    serverID,        \* Exporter.serverID
    serverFallback,  \* Exporter.serverFallback
    requests,        \* the Collect calls the host issues
    pc,              \* per cycle: the step Collect/speedtest is at
    serverList,      \* per cycle: serverList.Servers
    server,          \* per cycle: position of *server in the list, 0 = nil
    rawDL,           \* per cycle: server.DLSpeed
    rawUL,           \* per cycle: server.ULSpeed
    pingSuccess,     \* per cycle: local of speedtest
    downloadSuccess, \* per cycle: local of speedtest
    uploadSuccess,   \* per cycle: local of speedtest
    ch,              \* per cycle: the metrics sent on ch, in order
    calls,           \* per cycle: the provider operations invoked, in order
    answers          \* per cycle: what the provider answered ("none" yet, "ok", "err")

vars == << build, serverID, serverFallback, requests, pc, serverList, server,
           rawDL, rawUL, pingSuccess, downloadSuccess, uploadSuccess, ch, calls,
           answers >>

config == << build, serverID, serverFallback, requests >>

\* Whether the host has issued requests that may overlap.
Overlapping == Cardinality(requests) > 1

\* What the provider answers with.  With overlapping requests the answers are
\* drawn from a part of the range, so that every interleaving is enumerated.
OverlapLists == {<< >>} \cup {<< s >> : s \in Candidates}

OverlapSpeeds == {Dec(10, 0), Dec(25000, 0)}

ListsOffered == IF Overlapping THEN OverlapLists ELSE ServerLists

SpeedsOffered == IF Overlapping THEN OverlapSpeeds ELSE RawSpeeds

\* A metric labelled from a test_uuid kept in a field of the Exporter, which
\* the latest request (the highest running id) has overwritten.
MetricSharedUUID(desc, value, c, srv) ==
    LET running == {k \in CycleIds : pc[k] # "idle"}
    IN  [desc |-> desc, value |-> value,
         uuid |-> CHOOSE k \in running : \A j \in running : j <= k,
         srv |-> srv]

\* A sent metric: descriptor, value, test_uuid label, and the position of the
\* server whose labels it carries (0 for up and scrape_duration_seconds).
Metric(desc, value, c, srv) ==
    [desc |-> desc, value |-> value, uuid |-> c, srv |-> srv]

\* A provider operation and the server it is invoked on (0: none).
Call(op, srv) == [op |-> op, srv |-> srv]

NoSpeed == Dec(0, 0)

NoAnswers ==
    [user |-> "none", list |-> "none", ping |-> "none",
     download |-> "none", upload |-> "none"]

Answer(err) == IF err THEN "err" ELSE "ok"

\* New(serverID, serverFallback), with no Collect running yet.
InitWith(reqs) ==
    /\ build \in Builds
    /\ serverID \in PreferredIDs
    /\ serverFallback \in BOOLEAN
    /\ requests = reqs
    /\ pc = [c \in CycleIds |-> "idle"]
    /\ serverList = [c \in CycleIds |-> <<>>]
    /\ server = [c \in CycleIds |-> 0]
    /\ rawDL = [c \in CycleIds |-> NoSpeed]
    /\ rawUL = [c \in CycleIds |-> NoSpeed]
    /\ pingSuccess = [c \in CycleIds |-> FALSE]
    /\ downloadSuccess = [c \in CycleIds |-> FALSE]
    /\ uploadSuccess = [c \in CycleIds |-> FALSE]
    /\ ch = [c \in CycleIds |-> <<>>]
    /\ calls = [c \in CycleIds |-> <<>>]
    /\ answers = [c \in CycleIds |-> NoAnswers]

\* One scrape.
Init == InitWith({1})

\* Collect is entered: testUUID and start are taken, speedtest begins.
Collect(c) ==
    /\ c \in requests
    /\ pc[c] = "idle"
    /\ pc' = [pc EXCEPT ![c] = "FetchUserInfo"]
    /\ UNCHANGED << config, serverList, server, rawDL, rawUL, pingSuccess,
                    downloadSuccess, uploadSuccess, ch, calls, answers >>

\* A FetchUserInfo step that logs the error and carries on.
FetchUserInfoIgnoringError(c) ==
    /\ pc[c] = "FetchUserInfo"
    /\ calls' = [calls EXCEPT ![c] = Append(@, Call("FetchUserInfo", 0))]
    /\ \E err \in BOOLEAN :
          /\ answers' = [answers EXCEPT ![c].user = Answer(err)]
          /\ pc' = [pc EXCEPT ![c] = "FetchServerList"]
    /\ UNCHANGED << config, serverList, server, rawDL, rawUL, pingSuccess,
                    downloadSuccess, uploadSuccess, ch >>

\* speedtest.FetchUserInfo() returns; on an error speedtest returns false.
FetchUserInfo(c) ==
    /\ pc[c] = "FetchUserInfo"
    /\ calls' = [calls EXCEPT ![c] = Append(@, Call("FetchUserInfo", 0))]
    /\ \E err \in BOOLEAN :
          /\ answers' = [answers EXCEPT ![c].user = Answer(err)]
          /\ pc' = [pc EXCEPT ![c] = IF err THEN "report" ELSE "FetchServerList"]
    /\ UNCHANGED << config, serverList, server, rawDL, rawUL, pingSuccess,
                    downloadSuccess, uploadSuccess, ch >>

\* speedtest.FetchServerList(user) returns a list or an error.
FetchServerList(c) ==
    /\ pc[c] = "FetchServerList"
    /\ calls' = [calls EXCEPT ![c] = Append(@, Call("FetchServerList", 0))]
    /\ \/ /\ answers' = [answers EXCEPT ![c].list = "err"]
          /\ pc' = [pc EXCEPT ![c] = "report"]
          /\ UNCHANGED serverList
       \/ \E list \in ListsOffered :
             /\ answers' = [answers EXCEPT ![c].list = "ok"]
             /\ serverList' = [serverList EXCEPT ![c] = list]
             /\ pc' = [pc EXCEPT ![c] = "select"]
    /\ UNCHANGED << config, server, rawDL, rawUL, pingSuccess,
                    downloadSuccess, uploadSuccess, ch >>

\* The server choice and the URL workaround of speedtest().
SelectServer(c) ==
    /\ pc[c] = "select"
    /\ LET s == selectServer(serverList[c], serverID, serverFallback)
       IN  /\ server' = [server EXCEPT ![c] = s]
           /\ IF s = 0
              THEN /\ pc' = [pc EXCEPT ![c] = "report"]
                   /\ UNCHANGED serverList
              ELSE /\ pc' = [pc EXCEPT ![c] = "PingTest"]
                   /\ serverList' =
                        [serverList EXCEPT ![c][s].URL = correctURL(@)]
    /\ calls' = [calls EXCEPT ![c] =
                    IF serverID = -1 THEN @ ELSE Append(@, Call("FindServer", 0))]
    /\ UNCHANGED << config, rawDL, rawUL, pingSuccess,
                    downloadSuccess, uploadSuccess, ch, answers >>

\* A ping phase whose failure ends speedtest at once.
PingTestAborting(c) ==
    /\ pc[c] = "PingTest"
    /\ calls' = [calls EXCEPT ![c] = Append(@, Call("PingTest", server[c]))]
    /\ \E err \in BOOLEAN :
          /\ answers' = [answers EXCEPT ![c].ping = Answer(err)]
          /\ pingSuccess' = [pingSuccess EXCEPT ![c] = ~err]
          /\ ch' = [ch EXCEPT ![c] =
                      IF err THEN @
                      ELSE Append(@, Metric("latency", Dec(1, -2), c, server[c]))]
          /\ pc' = [pc EXCEPT ![c] = IF err THEN "report" ELSE "DownloadTest"]
    /\ UNCHANGED << config, serverList, server, rawDL, rawUL,
                    downloadSuccess, uploadSuccess >>

\* pingTest: server.PingTest(), the latency metric on success.
PingTest(c) ==
    /\ pc[c] = "PingTest"
    /\ calls' = [calls EXCEPT ![c] = Append(@, Call("PingTest", server[c]))]
    /\ \E err \in BOOLEAN :
          /\ answers' = [answers EXCEPT ![c].ping = Answer(err)]
          /\ pingSuccess' = [pingSuccess EXCEPT ![c] = ~err]
          /\ ch' = [ch EXCEPT ![c] =
                      IF err THEN @
                      ELSE Append(@, Metric("latency", Dec(1, -2), c, server[c]))]
    /\ pc' = [pc EXCEPT ![c] = "DownloadTest"]
    /\ UNCHANGED << config, serverList, server, rawDL, rawUL,
                    downloadSuccess, uploadSuccess >>

\* downloadTest: server.DownloadTest(false), the download metric on success.
DownloadTest(c) ==
    /\ pc[c] = "DownloadTest"
    /\ calls' = [calls EXCEPT ![c] = Append(@, Call("DownloadTest", server[c]))]
    /\ \/ /\ answers' = [answers EXCEPT ![c].download = "err"]
          /\ downloadSuccess' = [downloadSuccess EXCEPT ![c] = FALSE]
          /\ UNCHANGED << rawDL, ch >>
       \/ \E raw \in SpeedsOffered :
             /\ answers' = [answers EXCEPT ![c].download = "ok"]
             /\ rawDL' = [rawDL EXCEPT ![c] = raw]
             /\ downloadSuccess' = [downloadSuccess EXCEPT ![c] = TRUE]
             /\ ch' = [ch EXCEPT ![c] =
                  Append(@, Metric("download", speedBps(build, raw), c, server[c]))]
    /\ pc' = [pc EXCEPT ![c] = "UploadTest"]
    /\ UNCHANGED << config, serverList, server, rawUL, pingSuccess, uploadSuccess >>

\* An upload phase that sends its value under the download descriptor.
UploadTestAsDownload(c) ==
    /\ pc[c] = "UploadTest"
    /\ calls' = [calls EXCEPT ![c] = Append(@, Call("UploadTest", server[c]))]
    /\ \/ /\ answers' = [answers EXCEPT ![c].upload = "err"]
          /\ uploadSuccess' = [uploadSuccess EXCEPT ![c] = FALSE]
          /\ UNCHANGED << rawUL, ch >>
       \/ \E raw \in SpeedsOffered :
             /\ answers' = [answers EXCEPT ![c].upload = "ok"]
             /\ rawUL' = [rawUL EXCEPT ![c] = raw]
             /\ uploadSuccess' = [uploadSuccess EXCEPT ![c] = TRUE]
             /\ ch' = [ch EXCEPT ![c] =
                  Append(@, Metric("download", speedBps(build, raw), c, server[c]))]
    /\ pc' = [pc EXCEPT ![c] = "report"]
    /\ UNCHANGED << config, serverList, server, rawDL, pingSuccess, downloadSuccess >>

\* uploadTest: server.UploadTest(false), the upload metric on success.
UploadTest(c) ==
    /\ pc[c] = "UploadTest"
    /\ calls' = [calls EXCEPT ![c] = Append(@, Call("UploadTest", server[c]))]
    /\ \/ /\ answers' = [answers EXCEPT ![c].upload = "err"]
          /\ uploadSuccess' = [uploadSuccess EXCEPT ![c] = FALSE]
          /\ UNCHANGED << rawUL, ch >>
       \/ \E raw \in SpeedsOffered :
             /\ answers' = [answers EXCEPT ![c].upload = "ok"]
             /\ rawUL' = [rawUL EXCEPT ![c] = raw]
             /\ uploadSuccess' = [uploadSuccess EXCEPT ![c] = TRUE]
             /\ ch' = [ch EXCEPT ![c] =
                  Append(@, Metric("upload", speedBps(build, raw), c, server[c]))]
    /\ pc' = [pc EXCEPT ![c] = "report"]
    /\ UNCHANGED << config, serverList, server, rawDL, pingSuccess, downloadSuccess >>

\* A result that forgets the upload phase.
speedtestOkWithoutUpload(c) == pingSuccess[c] /\ downloadSuccess[c]

\* The bool speedtest() returns to Collect.
speedtestOk(c) == pingSuccess[c] /\ downloadSuccess[c] /\ uploadSuccess[c]

\* The value of the up metric for speedtest's result.
upValue(ok) == IF ok THEN Dec(1, 0) ELSE Dec(0, 0)

\* A Collect that reports the duration of successful tests only.
ReportDurationOnSuccess(c) ==
    /\ pc[c] = "report"
    /\ ch' = [ch EXCEPT ![c] =
                @ \o (IF speedtestOk(c)
                      THEN << Metric("scrape_duration_seconds",
                                     Dec(Len(calls[c]), 0), c, 0) >>
                      ELSE << >>)
                  \o << Metric("up", upValue(speedtestOk(c)), c, 0) >>]
    /\ pc' = [pc EXCEPT ![c] = "done"]
    /\ UNCHANGED << config, serverList, server, rawDL, rawUL, pingSuccess,
                    downloadSuccess, uploadSuccess, calls, answers >>

\* speedtest has returned: Collect sends scrape_duration_seconds and up.
\* The duration is the number of provider operations the cycle waited for.
Report(c) ==
    /\ pc[c] = "report"
    /\ ch' = [ch EXCEPT ![c] =
                @ \o << Metric("scrape_duration_seconds", Dec(Len(calls[c]), 0), c, 0),
                        Metric("up", upValue(speedtestOk(c)), c, 0) >>]
    /\ pc' = [pc EXCEPT ![c] = "done"]
    /\ UNCHANGED << config, serverList, server, rawDL, rawUL, pingSuccess,
                    downloadSuccess, uploadSuccess, calls, answers >>

Next ==
    \E c \in CycleIds :
        \/ Collect(c)
        \/ FetchUserInfo(c)
        \/ FetchServerList(c)
        \/ SelectServer(c)
        \/ PingTest(c)
        \/ DownloadTest(c)
        \/ UploadTest(c)
        \/ Report(c)

Spec == Init /\ [][Next]_vars

\* Two scrapes that the host lets overlap.
InitOverlap == InitWith({1, 2})

SpecOverlap == InitOverlap /\ [][Next]_vars

\* ================================================================= claims

MetricsOf(c, desc) == SelectSeq(ch[c], LAMBDA m : m.desc = desc)

Ops(c) == [i \in 1..Len(calls[c]) |-> calls[c][i].op]

PhaseOps == {"PingTest", "DownloadTest", "UploadTest"}

PhaseCalls(c) == SelectSeq(calls[c], LAMBDA k : k.op \in PhaseOps)

PhaseMetrics(c) ==
    SelectSeq(ch[c], LAMBDA m : m.desc \in {"latency", "download", "upload"})

IDsOf(list) == {list[i].ID : i \in 1..Len(list)}

\* Selection failure as section 4.2 states it.
SelectionFails(list, id, fallback) ==
    \/ Len(list) = 0
    \/ (id # -1 /\ id \notin IDsOf(list) /\ ~fallback)

\* The cycle has been through the selection step.
SelectionDone(c) == answers[c].list = "ok" /\ pc[c] # "select"

\* Identity fetch, candidate fetch or selection failed in the cycle.
EarlyFailure(c) ==
    \/ answers[c].user = "err"
    \/ answers[c].list = "err"
    \/ (SelectionDone(c) /\ SelectionFails(serverList[c], serverID, serverFallback))

AllSucceeded(c) ==
    /\ answers[c].user = "ok"
    /\ answers[c].list = "ok"
    /\ ~SelectionFails(serverList[c], serverID, serverFallback)
    /\ answers[c].ping = "ok"
    /\ answers[c].download = "ok"
    /\ answers[c].upload = "ok"

\* C1: when a cycle has returned, its up metric is 1 if and only if identity
\* fetch, candidate fetch, selection, latency, download and upload all
\* succeeded, and 0 in every other case.
C1_UpIffAllSucceeded ==
    \A c \in CycleIds :
        pc[c] = "done" =>
            LET ups == MetricsOf(c, "up")
            IN  /\ Len(ups) >= 1
                /\ \A i \in 1..Len(ups) :
                      ups[i].value = IF AllSucceeded(c) THEN Dec(1, 0) ELSE Dec(0, 0)

C1_Witness ==
    \E c \in CycleIds :
        /\ pc[c] = "done"
        /\ AllSucceeded(c)
        /\ MetricsOf(c, "up") = << Metric("up", Dec(1, 0), c, 0) >>

\* C2: a cycle that has returned has sent exactly one up metric and exactly
\* one scrape-duration metric, whatever its outcome; no cycle ever sends more.
C2_UpAndDurationOnce ==
    \A c \in CycleIds :
        /\ Len(MetricsOf(c, "up")) <= 1
        /\ Len(MetricsOf(c, "scrape_duration_seconds")) <= 1
        /\ pc[c] = "done" =>
              /\ Len(MetricsOf(c, "up")) = 1
              /\ Len(MetricsOf(c, "scrape_duration_seconds")) = 1

C2_Witness ==
    \E c \in CycleIds :
        /\ pc[c] = "done"
        /\ answers[c].user = "err"
        /\ Len(MetricsOf(c, "up")) = 1
        /\ Len(MetricsOf(c, "scrape_duration_seconds")) = 1

\* The provider operations of a full cycle, in order.
FullOrder ==
    << "FetchUserInfo", "FetchServerList" >>
    \o (IF serverID = -1 THEN << >> ELSE << "FindServer" >>)
    \o << "PingTest", "DownloadTest", "UploadTest" >>

\* C3: identity fetch, candidate fetch and selection happen in that order, each
\* at most once; the first of them that fails ends the cycle: nothing later is
\* performed, no ping/download/upload is invoked, no latency, download or upload
\* metric is sent, and the cycle returns with the duration and up = 0 only.
C3_EarlyFailureAborts ==
    \A c \in CycleIds :
        /\ Len(Ops(c)) <= Len(FullOrder)
        /\ Ops(c) = SubSeq(FullOrder, 1, Len(Ops(c)))
        /\ EarlyFailure(c) =>
              /\ PhaseCalls(c) = << >>
              /\ PhaseMetrics(c) = << >>
              /\ pc[c] \in {"report", "done"}
              /\ answers[c].user = "err" => Ops(c) = << "FetchUserInfo" >>
              /\ answers[c].list = "err" =>
                    Ops(c) = << "FetchUserInfo", "FetchServerList" >>
              /\ pc[c] = "done" =>
                    /\ Len(ch[c]) = 2
                    /\ ch[c][1].desc = "scrape_duration_seconds"
                    /\ ch[c][2] = Metric("up", Dec(0, 0), c, 0)

C3_Witness ==
    \E c \in CycleIds :
        /\ pc[c] = "done"
        /\ answers[c].user = "err"
        /\ Ops(c) = << "FetchUserInfo" >>
        /\ Len(ch[c]) = 2

\* C4: in a cycle whose selection succeeded and that has returned, ping,
\* download and upload of the selected candidate were each invoked exactly
\* once, in that order, whatever each of them answered.
C4_PhasesRunOnceInOrder ==
    \A c \in CycleIds :
        (pc[c] = "done" /\ server[c] # 0) =>
            PhaseCalls(c) = << Call("PingTest", server[c]),
                               Call("DownloadTest", server[c]),
                               Call("UploadTest", server[c]) >>

C4_Witness ==
    \E c \in CycleIds :
        /\ pc[c] = "done"
        /\ server[c] # 0
        /\ answers[c].ping = "err"
        /\ answers[c].download = "err"
        /\ answers[c].upload = "ok"
        /\ Len(PhaseCalls(c)) = 3

\* C5: each of the latency, download and upload metrics is sent at most once
\* per cycle, and is sent if and only if its own phase ran and succeeded,
\* whatever the other two phases did.
C5_PhaseMetricIffPhaseSucceeded ==
    \A c \in CycleIds :
        /\ Len(MetricsOf(c, "latency")) = (IF answers[c].ping = "ok" THEN 1 ELSE 0)
        /\ Len(MetricsOf(c, "download")) = (IF answers[c].download = "ok" THEN 1 ELSE 0)
        /\ Len(MetricsOf(c, "upload")) = (IF answers[c].upload = "ok" THEN 1 ELSE 0)

C5_Witness ==
    \E c \in CycleIds :
        /\ pc[c] = "done"
        /\ answers[c].ping = "ok"
        /\ answers[c].download = "err"
        /\ answers[c].upload = "ok"
        /\ Len(MetricsOf(c, "download")) = 0
        /\ Len(MetricsOf(c, "latency")) = 1
        /\ Len(MetricsOf(c, "upload")) = 1
        /\ MetricsOf(c, "up") = << Metric("up", Dec(0, 0), c, 0) >>

\* C6: selection fails if and only if the candidate list is empty, or a
\* preference is configured whose identifier is not in the list while fallback
\* is off; a failed selection probes no candidate.
C6_SelectionFailsIff ==
    \A c \in CycleIds :
        SelectionDone(c) =>
            /\ (server[c] = 0) <=>
                   SelectionFails(serverList[c], serverID, serverFallback)
            /\ server[c] = 0 => PhaseCalls(c) = << >>

C6_Witness ==
    \E c \in CycleIds :
        /\ pc[c] = "done"
        /\ SelectionDone(c)
        /\ Len(serverList[c]) > 0
        /\ serverID # -1
        /\ serverID \notin IDsOf(serverList[c])
        /\ ~serverFallback
        /\ server[c] = 0

\* C7: a successful selection picks the first candidate when no preference is
\* configured, a candidate with the preferred identifier when the list holds
\* one (at any position, with or without fallback), and the first candidate
\* when the preferred identifier is absent; every phase call and every phase
\* metric of the cycle is for that one candidate.
C7_SelectedCandidate ==
    \A c \in CycleIds :
        server[c] # 0 =>
            LET list == serverList[c]
                s    == server[c]
            IN  /\ s \in 1..Len(list)
                /\ serverID = -1 => s = 1
                /\ (serverID # -1 /\ serverID \in IDsOf(list)) =>
                       list[s].ID = serverID
                /\ (serverID # -1 /\ serverID \notin IDsOf(list)) => s = 1
                /\ \A i \in 1..Len(PhaseCalls(c)) : PhaseCalls(c)[i].srv = s
                /\ \A i \in 1..Len(PhaseMetrics(c)) : PhaseMetrics(c)[i].srv = s

C7_Witness ==
    \E c \in CycleIds :
        /\ pc[c] = "done"
        /\ ~serverFallback
        /\ server[c] = 2
        /\ serverList[c][1].ID # serverID
        /\ serverList[c][2].ID = serverID
        /\ Len(PhaseMetrics(c)) = 3

\* Section 4.1's table, as a relation between a raw reading and its
\* bytes-per-second value.
IsSection41(raw, out) ==
    /\ (Gt(raw, Dec(0, 0)) /\ Lt(raw, Dec(20, 0))) =>
          out = Times(raw, Dec(125000000, 0))
    /\ (Ge(raw, Dec(20, 0)) /\ Lt(raw, Dec(20000, 0))) =>
          out = Times(raw, Dec(125000, 0))
    /\ (Ge(raw, Dec(20000, 0)) /\ Lt(raw, Dec(20000000, 0))) =>
          out = Times(raw, Dec(125, 0))
    /\ (Ge(raw, Dec(20000000, 0)) \/ ~Gt(raw, Dec(0, 0))) =>
          Times(out, Dec(8, 0)) = Canon(raw)

\* How many of section 4.1's five rows hold of a raw reading.
BandsHolding(raw) ==
    Cardinality({ b \in 1..5 :
        CASE b = 1 -> Gt(raw, Dec(0, 0)) /\ Lt(raw, Dec(20, 0))
          [] b = 2 -> Ge(raw, Dec(20, 0)) /\ Lt(raw, Dec(20000, 0))
          [] b = 3 -> Ge(raw, Dec(20000, 0)) /\ Lt(raw, Dec(20000000, 0))
          [] b = 4 -> Ge(raw, Dec(20000000, 0))
          [] b = 5 -> ~Gt(raw, Dec(0, 0)) })

\* The raw readings the provider has left in the cycles' servers.
RawReadings ==
    {rawDL[c] : c \in {k \in CycleIds : answers[k].download = "ok"}}
    \cup {rawUL[c] : c \in {k \in CycleIds : answers[k].upload = "ok"}}

\* C8: normalizeSpeed(raw) is raw * 125,000,000 on (0, 20), raw * 125,000 on
\* [20, 20,000), raw * 125 on [20,000, 20,000,000) and raw / 8 from 20,000,000
\* up and for raw <= 0; 20, 20,000 and 20,000,000 belong to the upper band;
\* exactly one row applies to every reading.
C8_NormalizeBands ==
    \A raw \in RawReadings :
        LET out == normalizeSpeed(raw)
        IN  /\ IsSection41(raw, out)
            /\ BandsHolding(raw) = 1
            /\ raw = Dec(10, 0) => out = Dec(125, 7)
            /\ raw = Dec(20, 0) => out = Dec(25, 5)
            /\ raw = Dec(20000, 0) => out = Dec(25, 5)
            /\ raw = Dec(20000000, 0) => out = Dec(25, 5)
            /\ raw = Dec(0, 0) => out = Dec(0, 0)
            /\ raw = Dec(-5, 0) => out = Dec(-625, -3)

C8_Witness ==
    \E c \in CycleIds :
        /\ answers[c].download = "ok"
        /\ answers[c].upload = "ok"
        /\ rawDL[c] = Dec(20, 0)
        /\ rawUL[c] = Dec(-5, 0)
        /\ normalizeSpeed(rawDL[c]) = Dec(25, 5)

\* C9: whenever the download (upload) phase succeeded, the download (upload)
\* metric sent carries section 4.1's value of the raw reading the provider
\* reported for that phase.
C9_EmittedSpeedIsNormalized ==
    \A c \in CycleIds :
        /\ answers[c].download = "ok" =>
              /\ Len(MetricsOf(c, "download")) = 1
              /\ IsSection41(rawDL[c], MetricsOf(c, "download")[1].value)
        /\ answers[c].upload = "ok" =>
              /\ Len(MetricsOf(c, "upload")) = 1
              /\ IsSection41(rawUL[c], MetricsOf(c, "upload")[1].value)

\* Section 4.2's repair of a URL.
Section42Repair(url) ==
    IF Len(url) >= 6 /\ SubSeq(url, 1, 6) = <<"h", "t", "t", "p", "/", "/">>
    THEN <<"h", "t", "t", "p", ":", "/", "/">> \o SubSeq(url, 7, Len(url))
    ELSE url

\* C10: the selection step rewrites a leading "http//" of the selected
\* candidate's URL to "http://" and leaves every other URL, every other field
\* of the selected candidate and every other candidate as fetched; repairing the
\* repaired URL again changes nothing; no later step touches the list.
C10_UrlRepairFrame ==
    [][ \A c \in CycleIds :
          /\ (pc[c] = "select" /\ pc'[c] = "PingTest") =>
                LET s   == server'[c]
                    old == serverList[c]
                    new == serverList'[c]
                IN  /\ PhaseCalls(c) = << >>
                    /\ Len(new) = Len(old)
                    /\ new[s].URL = Section42Repair(old[s].URL)
                    /\ new[s].ID = old[s].ID
                    /\ new[s].Name = old[s].Name
                    /\ \A i \in 1..Len(old) : i # s => new[i] = old[i]
                    /\ correctURL(new[s].URL) = new[s].URL
                    /\ old[s].URL = UrlX =>
                          new[s].URL = <<"h","t","t","p",":","/","/","x",".",
                                         "e","x","a","m","p","l","e">>
                    /\ old[s].URL \in {UrlY, UrlZ} => new[s].URL = old[s].URL
          /\ pc[c] \notin {"FetchServerList", "select"} =>
                serverList'[c] = serverList[c]
      ]_vars

C10_Witness ==
    \E c \in CycleIds :
        /\ pc[c] = "PingTest"
        /\ server[c] = 2
        /\ Len(serverList[c]) = 2
        /\ serverList[c][2].URL = <<"h","t","t","p",":","/","/","x",".",
                                    "e","x","a","m","p","l","e">>
        /\ serverList[c][1].URL = UrlZ

\* The per-cycle state of cycle c.
CycleState(c) ==
    << pc[c], serverList[c], server[c], rawDL[c], rawUL[c], pingSuccess[c],
       downloadSuccess[c], uploadSuccess[c], ch[c], calls[c], answers[c] >>

\* What a cycle sends, from its own provider answers and the configuration.
OwnSnapshot(c) ==
    LET sel == IF answers[c].list = "ok"
                  /\ ~SelectionFails(serverList[c], serverID, serverFallback)
               THEN IF serverID # -1 /\ serverID \in IDsOf(serverList[c])
                    THEN CHOOSE i \in 1..Len(serverList[c]) :
                            /\ serverList[c][i].ID = serverID
                            /\ \A j \in 1..(i - 1) : serverList[c][j].ID # serverID
                    ELSE 1
               ELSE 0
        asked == (IF answers[c].user = "none" THEN 0 ELSE 1)
                 + (IF answers[c].list = "none" THEN 0 ELSE 1)
                 + (IF answers[c].list = "ok" /\ serverID # -1 THEN 1 ELSE 0)
                 + (IF answers[c].ping = "none" THEN 0 ELSE 1)
                 + (IF answers[c].download = "none" THEN 0 ELSE 1)
                 + (IF answers[c].upload = "none" THEN 0 ELSE 1)
    IN  (IF answers[c].ping = "ok"
         THEN << [desc |-> "latency", value |-> Dec(1, -2), uuid |-> c, srv |-> sel] >>
         ELSE << >>)
        \o (IF answers[c].download = "ok"
            THEN << [desc |-> "download", value |-> speedBps(build, rawDL[c]),
                     uuid |-> c, srv |-> sel] >>
            ELSE << >>)
        \o (IF answers[c].upload = "ok"
            THEN << [desc |-> "upload", value |-> speedBps(build, rawUL[c]),
                     uuid |-> c, srv |-> sel] >>
            ELSE << >>)
        \o << [desc |-> "scrape_duration_seconds", value |-> Dec(asked, 0),
               uuid |-> c, srv |-> 0],
              [desc |-> "up",
               value |-> IF AllSucceeded(c) THEN Dec(1, 0) ELSE Dec(0, 0),
               uuid |-> c, srv |-> 0] >>

\* C11: with two requests overlapping in any interleaving, every metric of a
\* cycle carries that cycle's own test_uuid, what a returned cycle has sent
\* (its up value included) is determined by its own provider answers and the
\* configuration, a step of one cycle leaves the other cycle's state as it
\* was, and no step writes the configuration.
C11_CyclesIndependent ==
    /\ [](\A c \in CycleIds :
            /\ \A i \in 1..Len(ch[c]) : ch[c][i].uuid = c
            /\ pc[c] = "done" => ch[c] = OwnSnapshot(c))
    /\ [][ /\ \A c, d \in CycleIds :
                (c # d /\ CycleState(c)' # CycleState(c)) =>
                    CycleState(d)' = CycleState(d)
           /\ << build, serverID, serverFallback >>' =
                 << build, serverID, serverFallback >>
         ]_vars

C11_Witness ==
    /\ Overlapping
    /\ pc[1] = "UploadTest"
    /\ pc[2] = "DownloadTest"
    /\ answers[1].download = "ok"
    /\ answers[2].ping = "ok"
    /\ answers[1].ping = "err"
    /\ \A c \in CycleIds : Len(ch[c]) = 1 /\ ch[c][1].uuid = c

====
